---- MODULE Spec2Model ----
(***************************************************************************)
(* Model of the plugin in src/main.ts: the toggle-embedding editor command *)
(* (a per-line regular-expression rewrite driven by the instance flag      *)
(* embeddingEnabled) and the create-file command with its CreatePageModal  *)
(* (file-name validation, collision check, file creation).                 *)
(*                                                                         *)
(* A string is a sequence of one-character strings.                        *)
(***************************************************************************)
EXTENDS Integers, Sequences, FiniteSets, TLC

VARIABLES
    doc,               \* editor.getValue(): the text of the active document
    embeddingEnabled,  \* MyPlugin.embeddingEnabled
    origDoc,           \* history: doc when the user last changed it by hand
    origFlag,          \* history: embeddingEnabled at that moment
    run,               \* history: executed toggles since that moment
    toggles,           \* history: executed toggles since plugin start
    modal,             \* the CreatePageModal: "none", "open" or "closed"
    selectedText,      \* CreatePageModal.selectedText
    contentEl,         \* the modal's input element and error paragraph
    vault,             \* the paths at which app.vault holds a file
    pending,           \* vault.create calls that the vault has not settled
    creates,           \* history: the vault.create calls of the current modal
    lastEv             \* history: the last event the modal or the vault saw

toggleVars == <<doc, embeddingEnabled, origDoc, origFlag, run, toggles>>
modalVars == <<modal, selectedText, contentEl, vault, pending, creates, lastEv>>
vars == <<doc, embeddingEnabled, origDoc, origFlag, run, toggles,
          modal, selectedText, contentEl, vault, pending, creates, lastEv>>

-----------------------------------------------------------------------------
(* Bounds *)

MaxLines == 3
MaxToggles == 3
MaxInputLen == 2

-----------------------------------------------------------------------------
(* Strings *)

SeqsUpTo(S, n) == UNION {[1..k -> S] : k \in 0..n}

Max(S) == CHOOSE x \in S : \A y \in S : y <= x
Min(S) == CHOOSE x \in S : \A y \in S : x <= y

\* String.prototype.split('\n'): the pieces between the separators; a text
\* without separator is one piece, the empty text is one empty piece.
RECURSIVE SplitFrom(_, _, _)
SplitFrom(text, i, cur) ==
    IF i > Len(text) THEN <<cur>>
    ELSE IF text[i] = "\n" THEN <<cur>> \o SplitFrom(text, i + 1, <<>>)
    ELSE SplitFrom(text, i + 1, Append(cur, text[i]))

Split(text) == SplitFrom(text, 1, <<>>)

\* Array.prototype.join('\n')
RECURSIVE Join(_)
Join(lines) ==
    IF lines = <<>> THEN <<>>
    ELSE IF Len(lines) = 1 THEN lines[1]
    ELSE lines[1] \o <<"\n">> \o Join(Tail(lines))

-----------------------------------------------------------------------------
\* The regular expression of the toggle command: "- [", a group of "x" or
\* " ", "] ", an optional group "!", "[[", a greedy group of any characters,
\* "]]". Positions are 1-based.

\* '.' matches every character but a line terminator: LF, CR, U+2028 (written
\* "LS" here) and U+2029 ("PS").
LineTerminators == {"\n", "\r", "LS", "PS"}

\* a variant of HeadAt: the checked group taken without regard to case
HeadAtIgnoreCase(s, p) ==
    /\ p + 5 <= Len(s)
    /\ s[p] = "-" /\ s[p + 1] = " " /\ s[p + 2] = "["
    /\ s[p + 3] \in {"x", "X", " "}
    /\ s[p + 4] = "]" /\ s[p + 5] = " "

\* the literal "- [", the checked group and "] ", matched at position p
HeadAt(s, p) ==
    /\ p + 5 <= Len(s)
    /\ s[p] = "-" /\ s[p + 1] = " " /\ s[p + 2] = "["
    /\ s[p + 3] \in {"x", " "}
    /\ s[p + 4] = "]" /\ s[p + 5] = " "

\* the literal "[[" matched at position q
OpenAt(s, q) == q + 1 <= Len(s) /\ s[q] = "[" /\ s[q + 1] = "["

\* the positions e >= q where "]]" matches after the greedy group has consumed q..e-1
CloseEnds(s, q) ==
    {e \in q..(Len(s) - 1) :
        /\ s[e] = "]" /\ s[e + 1] = "]"
        /\ \A k \in q..(e - 1) : s[k] \notin LineTerminators}

NoMatch == [found |-> FALSE]

\* the remainder of the pattern from "[[" on, at position q; the group is
\* greedy, so the last possible "]]" closes the match
TailAt(s, p, q, excl) ==
    IF OpenAt(s, q) /\ CloseEnds(s, q + 2) # {}
    THEN [found |-> TRUE, index |-> p, checked |-> s[p + 3],
          exclamation |-> excl,
          link |-> SubSeq(s, q + 2, Max(CloseEnds(s, q + 2)) - 1),
          end |-> Max(CloseEnds(s, q + 2)) + 1]
    ELSE NoMatch

\* an attempt at position p: the optional group first takes the "!", and gives it back
\* when the remainder fails
MatchAt(s, p) ==
    IF ~HeadAt(s, p) THEN NoMatch
    ELSE IF p + 6 <= Len(s) /\ s[p + 6] = "!" /\ TailAt(s, p, p + 7, TRUE).found
         THEN TailAt(s, p, p + 7, TRUE)
         ELSE TailAt(s, p, p + 6, FALSE)

\* RegExp exec without the g flag: the leftmost position with a match
Exec(s) ==
    LET ps == {p \in 1..Len(s) : MatchAt(s, p).found}
    IN IF ps = {} THEN NoMatch ELSE MatchAt(s, Min(ps))

\* lines[i].match(regex)
LineMatches(line) == Exec(line).found

\* a variant of Replacement: a "!" that is there stays
ReplacementKeepsMarker(m, enabled) ==
    <<"-", " ", "[", m.checked, "]", " ">>
        \o (IF enabled \/ m.exclamation THEN <<"!">> ELSE <<>>)
        \o <<"[", "[">> \o m.link \o <<"]", "]">>

\* a variant of Replacement: the "!" of the line is inverted
ReplacementFlipsMarker(m, enabled) ==
    <<"-", " ", "[", m.checked, "]", " ">>
        \o (IF ~m.exclamation THEN <<"!">> ELSE <<>>)
        \o <<"[", "[">> \o m.link \o <<"]", "]">>

\* the replacer: `- [${checked}] ${embeddingEnabled ? '!' : ''}[[${link}]]`
Replacement(m, enabled) ==
    <<"-", " ", "[", m.checked, "]", " ">>
        \o (IF enabled THEN <<"!">> ELSE <<>>)
        \o <<"[", "[">> \o m.link \o <<"]", "]">>

\* a variant of ReplaceLine: the text after the match is taken one character
\* too early
ReplaceLineOffByOne(line, enabled) ==
    LET m == Exec(line)
    IN IF ~m.found THEN line
       ELSE SubSeq(line, 1, m.index - 1)
                \o <<"-", " ", "[", m.checked, "]", " ">>
                \o (IF enabled THEN <<"!">> ELSE <<>>)
                \o <<"[", "[">> \o m.link \o <<"]", "]">>
                \o SubSeq(line, m.end, Len(line))

\* lines[i].replace(regex, replacer): the first match is replaced
ReplaceLine(line, enabled) ==
    LET m == Exec(line)
    IN IF ~m.found THEN line
       ELSE SubSeq(line, 1, m.index - 1)
                \o Replacement(m, enabled)
                \o SubSeq(line, m.end + 1, Len(line))

\* the loop over the lines
RewriteLines(lines, enabled) ==
    [i \in 1..Len(lines) |->
        IF LineMatches(lines[i]) THEN ReplaceLine(lines[i], enabled)
        ELSE lines[i]]

\* editor.setValue(lines.join('\n')) of editor.getValue().split('\n')
RewriteText(text, enabled) == Join(RewriteLines(Split(text), enabled))

-----------------------------------------------------------------------------
(* Documents the editor may hold *)

Prefixes == {<<>>, <<" ", " ">>,
             <<"-", " ", "[", "x", "]", " ", "!", "[", "[", "B", "]", "]", " ">>}
States == {" ", "x", "X"}
Markers == {<<>>, <<"!">>}
Opens == {<<"[", "[">>, <<"[">>}
Targets == {<<>>, <<"A">>, <<"]">>, <<"LS">>}
Suffixes == {<<>>, <<"LS", "]", "]">>, <<" ", "[", "[", "C", "]", "]">>}

FamilyLines ==
    {pre \o <<"-", " ", "[", st, "]", " ">> \o mk \o op \o tg \o <<"]", "]">> \o suf :
        pre \in Prefixes, st \in States, mk \in Markers, op \in Opens,
        tg \in Targets, suf \in Suffixes}

Alpha == <<"-", " ", "[", " ", "]", " ", "[", "[", "A", "l", "p", "h", "a", "]", "]">>
BetaEmbedded ==
    <<"-", " ", "[", "x", "]", " ", "!", "[", "[", "B", "e", "t", "a", "]", "]">>
PlainText == <<"-", " ", "p", "l", "a", "i", "n", " ", "t", "e", "x", "t">>

ScenarioLines == {Alpha, BetaEmbedded, PlainText, <<>>}

ScenarioDocs == {Join(ls) : ls \in UNION {[1..k -> ScenarioLines] : k \in 2..MaxLines}}

Docs == FamilyLines \cup ScenarioDocs

-----------------------------------------------------------------------------
(* The toggle-embedding command *)

\* the user edits the document, or opens another one
EditorInput(d) ==
    /\ d # doc
    /\ doc' = d
    /\ origDoc' = d
    /\ origFlag' = embeddingEnabled
    /\ run' = 0
    /\ UNCHANGED <<embeddingEnabled, toggles>>
    /\ UNCHANGED modalVars

\* editorCheckCallback(checking = true): only reports applicability
ToggleCheck ==
    /\ UNCHANGED vars

\* a variant of ToggleExec: the flag is inverted before the lines are rewritten
ToggleExecFlipFirst ==
    /\ toggles < MaxToggles
    /\ doc' = RewriteText(doc, ~embeddingEnabled)
    /\ embeddingEnabled' = ~embeddingEnabled
    /\ run' = run + 1
    /\ toggles' = toggles + 1
    /\ UNCHANGED <<origDoc, origFlag>>
    /\ UNCHANGED modalVars

\* a variant of ToggleExec: the flag is inverted only when a line matched
ToggleExecFlipOnMatch ==
    /\ toggles < MaxToggles
    /\ doc' = RewriteText(doc, embeddingEnabled)
    /\ embeddingEnabled' =
          IF \E i \in 1..Len(Split(doc)) : LineMatches(Split(doc)[i])
          THEN ~embeddingEnabled ELSE embeddingEnabled
    /\ run' = run + 1
    /\ toggles' = toggles + 1
    /\ UNCHANGED <<origDoc, origFlag>>
    /\ UNCHANGED modalVars

\* editorCheckCallback(checking = false)
ToggleExec ==
    /\ toggles < MaxToggles
    /\ doc' = RewriteText(doc, embeddingEnabled)
    /\ embeddingEnabled' = ~embeddingEnabled
    /\ run' = run + 1
    /\ toggles' = toggles + 1
    /\ UNCHANGED <<origDoc, origFlag>>
    /\ UNCHANGED modalVars

-----------------------------------------------------------------------------
(* Strings of the create-file command *)

Whitespace == {" ", "\t", "\n", "\r"}

RECURSIVE TrimStart(_)
TrimStart(s) ==
    IF s # <<>> /\ Head(s) \in Whitespace THEN TrimStart(Tail(s)) ELSE s

RECURSIVE TrimEnd(_)
TrimEnd(s) ==
    IF s # <<>> /\ s[Len(s)] \in Whitespace
    THEN TrimEnd(SubSeq(s, 1, Len(s) - 1)) ELSE s

\* String.prototype.trim()
Trim(s) == TrimEnd(TrimStart(s))

\* the character class of the regular expression in isValidFileName
RegexClass == {"/", "\\", "?", "%", "*", ":", "|", "\"", "<", ">"}

\* RegExp.prototype.test with the g flag: the search starts at lastIndex
RegexTest(s, lastIndex) == \E i \in (lastIndex + 1)..Len(s) : s[i] \in RegexClass

\* a variant of IsValidFileName: one regular expression object shared by the
\* calls, its lastIndex left at 1 by an earlier call
IsValidFileNameSticky(fileName) == ~RegexTest(fileName, 1)

\* the regular expression object is made anew by every call, so that its
\* lastIndex is 0
IsValidFileName(fileName) == ~RegexTest(fileName, 0)

\* a variant of FileName: the value is not trimmed
FileNameUntrimmed(value) ==
    <<"R", "e", "s", "e", "a", "r", "c", "h", "/">> \o value \o <<".", "m", "d">>

\* 'Research/' + textInput.value.trim() + '.md'
FileName(value) ==
    <<"R", "e", "s", "e", "a", "r", "c", "h", "/">> \o Trim(value) \o <<".", "m", "d">>

\* this.selectedText.split('\n')[0]
Title(text) == Split(text)[1]

InvalidMessage == "Invalid file name."
ExistsMessage == "File already exists."

NoContent ==
    [textInput |-> [value |-> <<>>, borderColor |-> ""],
     errorMessageEl |-> [text |-> "", color |-> "", display |-> ""]]

ShowError(el, message) ==
    [el EXCEPT !.errorMessageEl = [text |-> message, color |-> "red", display |-> "block"],
               !.textInput.borderColor = "red"]

ClearError(el) ==
    [el EXCEPT !.errorMessageEl.display = "none",
               !.textInput.borderColor = ""]

-----------------------------------------------------------------------------
(* Inputs of the create-file command *)

MyNote == <<"M", "y", " ", "N", "o", "t", "e", "\n", "B", "o", "d", "y", " ", "t", "e", "x", "t">>
BadName == <<"B", "a", "d", "/", "N", "a", "m", "e">>

\* the selections the editor may hold; the empty one is no selection
Selections == {<<>>, MyNote, BadName, <<" ", "\n", "a">>}

\* the values the user may give the input element
InputValues ==
    SeqsUpTo({"a", " "}, MaxInputLen)
        \cup {<<c>> : c \in {"/", "\\", "?", "%", "*", ":", "|", "\"", "<", ">"}}
        \cup {<<"M", "y", " ", "N", "o", "t", "e">>}

\* the paths at which other actors create and delete files
ExternalPaths == {FileName(<<>>), FileName(<<"a">>)}

InitDocs == {Join(<<Alpha, BetaEmbedded, PlainText>>), PlainText}

-----------------------------------------------------------------------------
(* The create-file command and the CreatePageModal *)

\* editorCheckCallback(checking = true)
CreateFileCheck(sel) ==
    /\ UNCHANGED vars

\* editorCheckCallback(checking = false): without selection a Notice and
\* nothing else; else new CreatePageModal(app, selectedText).open(), that is
\* the constructor and onOpen
CreateFileExec(sel) ==
    /\ modal = "none"
    /\ IF Len(sel) = 0
       THEN UNCHANGED modalVars
       ELSE /\ modal' = "open"
            /\ selectedText' = sel
            /\ LET el == [textInput |-> [value |-> Title(sel), borderColor |-> ""],
                          errorMessageEl |->
                              [text |-> InvalidMessage, color |-> "", display |-> "none"]]
               IN contentEl' = IF ~IsValidFileName(el.textInput.value)
                                THEN ShowError(el, InvalidMessage)
                                ELSE el
            /\ creates' = <<>>
            /\ lastEv' = "other"
            /\ UNCHANGED <<vault, pending>>
    /\ UNCHANGED toggleVars

\* a variant of Validate: no look into the vault
ValidateNoCollision(el) ==
    IF ~IsValidFileName(el.textInput.value) THEN ShowError(el, InvalidMessage)
    ELSE ClearError(el)

\* the checks of the 'input' listener
Validate(el) ==
    IF ~IsValidFileName(el.textInput.value) THEN ShowError(el, InvalidMessage)
    ELSE IF FileName(el.textInput.value) \in vault THEN ShowError(el, ExistsMessage)
    ELSE ClearError(el)

\* the user changes the input to v; the 'input' listener runs
InputEvent(v) ==
    /\ modal = "open"
    /\ v # contentEl.textInput.value
    /\ contentEl' = Validate([contentEl EXCEPT !.textInput.value = v])
    /\ lastEv' = "input"
    /\ UNCHANGED <<modal, selectedText, vault, pending, creates>>
    /\ UNCHANGED toggleVars

\* a variant of KeydownEnter: no look into the vault
KeydownEnterNoCollisionCheck ==
    /\ modal = "open"
    /\ LET value == contentEl.textInput.value
           fileName == FileName(value)
       IN IF ~IsValidFileName(value)
          THEN /\ contentEl' = ShowError(contentEl, InvalidMessage)
               /\ UNCHANGED <<modal, pending, creates>>
          ELSE /\ pending' = pending \cup {[path |-> fileName, data |-> selectedText]}
               /\ creates' = Append(creates, [path |-> fileName, data |-> selectedText])
               /\ modal' = "closed"
               /\ UNCHANGED contentEl
    /\ lastEv' = "enter"
    /\ UNCHANGED <<selectedText, vault>>
    /\ UNCHANGED toggleVars

\* the 'keydown' listener for the key Enter
KeydownEnter ==
    /\ modal = "open"
    /\ LET value == contentEl.textInput.value
           fileName == FileName(value)
       IN IF ~IsValidFileName(value)
          THEN /\ contentEl' = ShowError(contentEl, InvalidMessage)
               /\ UNCHANGED <<modal, pending, creates>>
          ELSE IF fileName \in vault
          THEN /\ contentEl' = ShowError(contentEl, ExistsMessage)
               /\ UNCHANGED <<modal, pending, creates>>
          ELSE /\ pending' = pending \cup {[path |-> fileName, data |-> selectedText]}
               /\ creates' = Append(creates, [path |-> fileName, data |-> selectedText])
               /\ modal' = "closed"
               /\ UNCHANGED contentEl
    /\ lastEv' = "enter"
    /\ UNCHANGED <<selectedText, vault>>
    /\ UNCHANGED toggleVars

\* the 'keydown' listener for any other key
KeydownOther ==
    /\ modal = "open"
    /\ lastEv' = "key"
    /\ UNCHANGED <<modal, selectedText, contentEl, vault, pending, creates>>
    /\ UNCHANGED toggleVars

\* the user dismisses the modal
ModalClose ==
    /\ modal = "open"
    /\ modal' = "closed"
    /\ lastEv' = "other"
    /\ UNCHANGED <<selectedText, contentEl, vault, pending, creates>>
    /\ UNCHANGED toggleVars

\* the vault settles a create call: the file exists from now on
VaultSettle(call) ==
    /\ call \in pending
    /\ pending' = pending \ {call}
    /\ vault' = vault \cup {call.path}
    /\ lastEv' = "other"
    /\ UNCHANGED <<modal, selectedText, contentEl, creates>>
    /\ UNCHANGED toggleVars

\* another actor creates or deletes a file
VaultChange(path) ==
    /\ vault' = IF path \in vault THEN vault \ {path} ELSE vault \cup {path}
    /\ lastEv' = "other"
    /\ UNCHANGED <<modal, selectedText, contentEl, pending, creates>>
    /\ UNCHANGED toggleVars
-----------------------------------------------------------------------------
(* Specifications *)

InitPlugin ==
    /\ embeddingEnabled = TRUE
    /\ origDoc = doc
    /\ origFlag = TRUE
    /\ run = 0
    /\ toggles = 0
    /\ modal = "none"
    /\ selectedText = <<>>
    /\ contentEl = NoContent
    /\ pending = {}
    /\ creates = <<>>
    /\ lastEv = "other"

InitToggle == doc \in Docs /\ vault = {} /\ InitPlugin

Init == doc \in InitDocs /\ vault \in SUBSET ExternalPaths /\ InitPlugin

\* the toggle command alone, over all documents of Docs
NextToggle ==
    \/ \E d \in Docs : EditorInput(d)
    \/ ToggleCheck
    \/ ToggleExec

SpecToggle == InitToggle /\ [][NextToggle]_vars

\* the whole plugin
Next ==
    \/ ToggleCheck
    \/ ToggleExec
    \/ \E sel \in Selections : CreateFileCheck(sel)
    \/ \E sel \in Selections : CreateFileExec(sel)
    \/ \E v \in InputValues : InputEvent(v)
    \/ KeydownEnter
    \/ KeydownOther
    \/ ModalClose
    \/ \E call \in pending : VaultSettle(call)
    \/ \E path \in ExternalPaths : VaultChange(path)

Spec == Init /\ [][Next]_vars

-----------------------------------------------------------------------------
(* Properties of the toggle command.  In a state with run = 1 the document *)
(* is the result of one executed toggle on origDoc with flag origFlag.     *)

OldLines == Split(origDoc)
NewLines == Split(doc)

Rest(s, k) == SubSeq(s, k, Len(s))

\* the line holds, somewhere, "- [", "x" or " ", "] ", an optional "!", "[[",
\* some content and "]]"
ShapeAt(line, p) ==
    /\ p + 9 <= Len(line)
    /\ SubSeq(line, p, p + 2) = <<"-", " ", "[">>
    /\ line[p + 3] = "x" \/ line[p + 3] = " "
    /\ SubSeq(line, p + 4, p + 5) = <<"]", " ">>
    /\ \E q \in {p + 6, p + 7} :
          /\ q = p + 7 => line[p + 6] = "!"
          /\ q + 1 <= Len(line)
          /\ SubSeq(line, q, q + 1) = <<"[", "[">>
          /\ \E e \in (q + 2)..(Len(line) - 1) : SubSeq(line, e, e + 1) = <<"]", "]">>

ContainsChecklistLink(line) == \E p \in 1..Len(line) : ShapeAt(line, p)

\* the same shape at the start of the line only
StartsWithChecklistLink(line) == ShapeAt(line, 1)

\* the first match of the line carries the "!"
HasMarker(line) == Exec(line).exclamation

\* C1 as stated: two executed toggles in a row give back the flag and the text.
C1_RoundTrip ==
    run = 2 => embeddingEnabled = origFlag /\ doc = origDoc

\* C1 as amended: two executed toggles in a row give back the flag; they give
\* back the text exactly when every matching line of the text had the "!" of
\* its first match present iff the flag was false.
C1_FlagRoundTrip ==
    run = 2 =>
        /\ embeddingEnabled = origFlag
        /\ doc = origDoc <=>
              \A i \in 1..Len(OldLines) :
                  LineMatches(OldLines[i]) => (HasMarker(OldLines[i]) <=> ~origFlag)

C1_Witness ==
    /\ run = 2
    /\ doc = origDoc
    /\ \E i \in 1..Len(OldLines) : LineMatches(OldLines[i])

\* C3: one executed toggle keeps, in every matching line, the text before the
\* match, the "- [", the checked character and the "] "; then comes "!" iff
\* the flag was true; then the "[[" and everything that followed it, unchanged.
C3_MatchedLineRewrite ==
    run = 1 =>
        \A i \in 1..Len(OldLines) :
            LET old == OldLines[i]
                new == NewLines[i]
                k == Exec(old).index + 6
                from == IF old[k] = "!" THEN k + 1 ELSE k
            IN LineMatches(old) =>
                 /\ SubSeq(new, 1, k - 1) = SubSeq(old, 1, k - 1)
                 /\ OpenAt(old, from)
                 /\ IF origFlag
                    THEN Len(new) >= k /\ new[k] = "!" /\ Rest(new, k + 1) = Rest(old, from)
                    ELSE Rest(new, k) = Rest(old, from)

C3_Witness ==
    /\ run = 1
    /\ \E i \in 1..Len(OldLines) :
          /\ LineMatches(OldLines[i])
          /\ Exec(OldLines[i]).index > 1
          /\ Exec(OldLines[i]).end < Len(OldLines[i])
          /\ HasMarker(OldLines[i]) # origFlag

\* C4 as stated: one executed toggle keeps the number of lines and leaves
\* unchanged every line that does not start with the checklist-link shape.
C4_UnanchoredLinesKept ==
    run = 1 =>
        /\ Len(NewLines) = Len(OldLines)
        /\ \A i \in 1..Len(OldLines) :
              ~StartsWithChecklistLink(OldLines[i]) => NewLines[i] = OldLines[i]

\* C4 as amended: one executed toggle keeps the number of lines and leaves
\* unchanged every line that holds the checklist-link shape nowhere.
C4_OtherLinesKept ==
    run = 1 =>
        /\ Len(NewLines) = Len(OldLines)
        /\ \A i \in 1..Len(OldLines) :
              ~ContainsChecklistLink(OldLines[i]) => NewLines[i] = OldLines[i]

C4_Witness ==
    /\ run = 1
    /\ doc # origDoc
    /\ Len(OldLines) >= 2
    /\ \E i \in 1..Len(OldLines) :
          OldLines[i] # <<>> /\ ~ContainsChecklistLink(OldLines[i])

ScenarioDoc == Join(<<Alpha, BetaEmbedded, PlainText>>)

AlphaEmbedded ==
    <<"-", " ", "[", " ", "]", " ", "!", "[", "[", "A", "l", "p", "h", "a", "]", "]">>
Beta == <<"-", " ", "[", "x", "]", " ", "[", "[", "B", "e", "t", "a", "]", "]">>

\* C8 as stated: an executed toggle with the flag true turns the three lines
\* "- [ ] [[Alpha]]", "- [x] ![[Beta]]", "- plain text" into
\* "- [ ] ![[Alpha]]", "- [x] [[Beta]]", "- plain text", and the flag is false.
C8_ScenarioAsStated ==
    (run = 1 /\ origDoc = ScenarioDoc /\ origFlag) =>
        doc = Join(<<AlphaEmbedded, Beta, PlainText>>) /\ ~embeddingEnabled

\* C8 as amended: that toggle gives "- [ ] ![[Alpha]]", "- [x] ![[Beta]]",
\* "- plain text" (the embedded line keeps its marker), and the flag is false.
C8_Scenario ==
    (run = 1 /\ origDoc = ScenarioDoc /\ origFlag) =>
        doc = Join(<<AlphaEmbedded, BetaEmbedded, PlainText>>) /\ ~embeddingEnabled

C8_Witness == run = 1 /\ origDoc = ScenarioDoc /\ origFlag

\* C10: after one or more executed toggles in a row, rewriting the text again
\* with the flag value of the last toggle changes nothing, and the text is the
\* rewrite of the original text with that flag value.
C10_Idempotent ==
    run >= 1 =>
        /\ RewriteText(doc, ~embeddingEnabled) = doc
        /\ doc = RewriteText(origDoc, ~embeddingEnabled)

C10_Witness ==
    /\ run = 3
    /\ doc # origDoc
    /\ doc # RewriteText(origDoc, embeddingEnabled)
-----------------------------------------------------------------------------
(* Properties of the create-file command and of the flag, over the whole   *)
(* plugin.  In a state with lastEv = "input" or "enter" the last event of  *)
(* the modal was that one, and the vault is as it was at the event.        *)

Value == contentEl.textInput.value

\* the characters a file name must not hold
ContainsForbidden(s) ==
    \E i \in 1..Len(s) :
        \/ s[i] = "/" \/ s[i] = "\\" \/ s[i] = "?" \/ s[i] = "%" \/ s[i] = "*"
        \/ s[i] = ":" \/ s[i] = "|" \/ s[i] = "\"" \/ s[i] = "<" \/ s[i] = ">"

IsBlank(c) == c = " " \/ c = "\t" \/ c = "\n" \/ c = "\r"

\* s without the blanks at its two ends
Trimmed(s) ==
    LET inner == {i \in 1..Len(s) : ~IsBlank(s[i])}
    IN IF inner = {} THEN <<>> ELSE SubSeq(s, Min(inner), Max(inner))

Candidate(s) ==
    <<"R", "e", "s", "e", "a", "r", "c", "h", "/">> \o Trimmed(s) \o <<".", "m", "d">>

Displayed ==
    IF contentEl.errorMessageEl.display # "block" THEN "Ready"
    ELSE IF contentEl.errorMessageEl.text = "Invalid file name." THEN "Invalid"
    ELSE IF contentEl.errorMessageEl.text = "File already exists." THEN "Collision"
    ELSE "Unknown"

Expected ==
    IF ContainsForbidden(Value) THEN "Invalid"
    ELSE IF Candidate(Value) \in vault THEN "Collision"
    ELSE "Ready"

TheCall == [path |-> Candidate(Value), data |-> selectedText]

\* C2: a modal calls vault.create at most once, and only on an Enter key at
\* which the input is valid and no file exists at the candidate path; an Enter
\* key with an invalid or colliding input makes no call and leaves the modal
\* open with the message; no other step makes a call.
C2_CreateOnlyOnValidSubmit ==
    /\ [](Len(creates) <= 1)
    /\ [][/\ creates' # creates =>
                /\ modal = "open" /\ modal' = "closed" /\ lastEv' = "enter"
                /\ ~ContainsForbidden(Value)
                /\ Candidate(Value) \notin vault
                /\ creates' = Append(creates, TheCall)
          /\ (modal = "open" /\ lastEv' = "enter" /\ Expected # "Ready") =>
                /\ creates' = creates
                /\ pending' = pending
                /\ modal' = "open"
                /\ Displayed' = Expected
                /\ contentEl'.textInput.borderColor = "red"]_vars

C2_Witness ==
    /\ modal = "open"
    /\ lastEv = "enter"
    /\ Displayed = "Collision"
    /\ creates = <<>>

\* C6 as stated: after every input change and after every key press, the
\* submit key or another, the displayed state is the one the current input
\* and the vault call for.
C6_EveryKeyRevalidates ==
    (modal = "open" /\ lastEv \in {"input", "enter", "key"}) => Displayed = Expected

\* C6 as amended: after every input change, and after every submit key press
\* that leaves the modal open, the displayed state is Invalid if the input
\* holds a forbidden character, else Collision if a file exists at the
\* candidate path, else Ready with the banner and the border cleared.
C6_InputRevalidates ==
    (modal = "open" /\ lastEv \in {"input", "enter"}) =>
        /\ Displayed = Expected
        /\ Expected = "Ready" => contentEl.textInput.borderColor = ""

C6_Witness ==
    /\ modal = "open"
    /\ lastEv = "input"
    /\ Displayed = "Collision"
    /\ Value # Trimmed(Value)

\* C7: after an Enter key with a valid input and no file at the candidate
\* path, the modal is closed and has made the one call vault.create of the
\* path 'Research/' + trim(input) + '.md' with the whole selected text.
C7_CreateCall ==
    lastEv = "enter" =>
        /\ (~ContainsForbidden(Value) /\ Candidate(Value) \notin vault) <=> modal = "closed"
        /\ modal = "closed" => creates = <<TheCall>> /\ TheCall \in pending

C7_Witness ==
    /\ lastEv = "enter"
    /\ modal = "closed"
    /\ Value # Title(selectedText)
    /\ Value # Trimmed(Value)
    /\ Len(Split(selectedText)) > 1
    /\ creates # <<>>

\* C9: isValidFileName is false exactly for the names that hold one of
\* / \ ? % * : | " < >, whatever was validated before; the empty name is
\* valid, and an Enter key with an empty or blank input and no file at
\* 'Research/.md' makes the call.
C9_ValidFileName ==
    /\ IsValidFileName(<<>>)
    /\ IsValidFileName(Value) <=> ~ContainsForbidden(Value)
    /\ modal # "none" =>
          (IsValidFileName(Title(selectedText)) <=> ~ContainsForbidden(Title(selectedText)))
    /\ (/\ lastEv = "enter"
        /\ \A i \in 1..Len(Value) : IsBlank(Value[i])
        /\ <<"R", "e", "s", "e", "a", "r", "c", "h", "/", ".", "m", "d">> \notin vault) =>
          /\ modal = "closed"
          /\ creates =
                <<[path |-> <<"R", "e", "s", "e", "a", "r", "c", "h", "/", ".", "m", "d">>,
                   data |-> selectedText]>>

C9_Witness ==
    /\ lastEv = "enter"
    /\ modal = "closed"
    /\ Value = <<" ">>
    /\ creates # <<>>

\* C5: the flag is true at the start and is true exactly after an even number
\* of executed toggles; every executed toggle flips it, and no other step
\* changes the flag or the document.
C5_FlagParity ==
    /\ [](embeddingEnabled <=> toggles % 2 = 0)
    /\ [][/\ toggles' # toggles =>
                toggles' = toggles + 1 /\ embeddingEnabled' = ~embeddingEnabled
          /\ toggles' = toggles => embeddingEnabled' = embeddingEnabled /\ doc' = doc]_vars

C5_Witness ==
    /\ toggles = 3
    /\ ~embeddingEnabled
    /\ doc = origDoc
    /\ modal = "closed"
    /\ creates # <<>>

====
